---- MODULE Spec2Model ----
(***************************************************************************)
(* Model of triton_dejavu/autotuner.py: the Autotuner decision engine      *)
(* (key derivation, pruning, benchmarking with its failure policy,         *)
(* selection, the reset/restore hook pair, the push to the dejavu storage) *)
(* as a state machine of one engine instance called sequentially.          *)
(*                                                                         *)
(* Modelling conventions                                                   *)
(*  - A kernel argument value is a record [v, dtype]: dtype = "none" for   *)
(*    a plain Python number, a dtype name for a tensor (hasattr(arg,       *)
(*    "dtype")), and v is the number or the tensor's content.              *)
(*  - float("inf") is Inf, larger than every measurable latency.           *)
(*  - do_bench / do_bench_cudagraph (triton.testing) call kernel_call at   *)
(*    least once and at most MaxReps times and then return a timing.       *)
(*  - The kernel (self.fn.run) either runs and writes its buffer           *)
(*    argument, or raises before writing: a tuning failure (OutOfResources,*)
(*    CompileTimeAssertionFailure, AssertionError) or any other exception. *)
(*  - The configurations of one engine are pairwise distinct.              *)
(***************************************************************************)
EXTENDS Integers, Sequences, FiniteSets, TLC

\* Bounds of the model.
MaxLat == 2
MaxReps == 2
MaxVal == 1

Lats == 1..MaxLat
Vals == 0..MaxVal
Inf == MaxLat + 1
KeyVals == {1, 2}
Dtypes == {"f16", "f32"}

VARIABLES
  eng,               \* the constructor's parameters (fixed after __init__)
  cache,             \* self.cache: CacheKey -> configuration
  _timings,          \* self._timings: CacheKey -> timing of the winner
  store,             \* snapshots handed to global_dejavu_storage.add_autotuner_cache
  pc,                \* position of the current call
  call,              \* the current call's (args, kwargs)
  key,               \* the key derived by run
  pruned,            \* pruned_configs of run / warmup
  idx,               \* next element of pruned to benchmark
  timings,           \* the dict `timings` of run, in insertion order
  rep,               \* kernel_call invocations of the running do_bench
  buf,               \* content of the tensor argument x (mutated in place)
  restore_copies,    \* self.restore_copies
  used_cached_result,\* local of run
  config,            \* local `config` of run (0: not chosen)
  err,               \* the exception that left run ("" if none)
  measured,          \* self.fn.run was invoked by a kernel_call in this call
  callEv,            \* what the last kernel_call of this call invoked, in order
  tail,              \* what run did after the benchmarking pass, in order
  warmed,            \* configurations handed to self.fn.warmup by warmup
  config_space,      \* the fields of a ConfigSpace object
  config_list,       \* what its generate_config_list returned
  condition_calls    \* the condition(kwarg) calls of generate_config_list, in order

vars == <<condition_calls, config_space, config_list, eng, cache, _timings, store, pc, call, key, pruned, idx, timings, rep, buf,
          restore_copies, used_cached_result, config, err, measured, callEv,
          tail, warmed>>

-----------------------------------------------------------------------------
\* Sequence helpers.

Range(s) == {s[i] : i \in 1..Len(s)}

RECURSIVE SeqFilter(_, _)
SeqFilter(s, keep) ==
  IF s = <<>> THEN <<>>
  ELSE (IF keep[1] THEN <<Head(s)>> ELSE <<>>)
       \o SeqFilter(Tail(s), Tail(keep))

IndexOf(s, e) == CHOOSE i \in 1..Len(s) : s[i] = e /\ \A j \in 1..(i-1) : s[j] # e

-----------------------------------------------------------------------------
\* Argument values and calls.

NoDtype == "none"
Num(n) == [v |-> n, dtype |-> NoDtype]
Tensor(d, dt) == [v |-> d, dtype |-> dt]

\* A call passes the first `pos` declared arguments positionally and the
\* arguments named in `kw` by keyword; val gives the values.
Supplied(c, arg_names) == {arg_names[i] : i \in 1..c.pos} \cup c.kw

-----------------------------------------------------------------------------
\* Key derivation (Autotuner.__init__ and the head of Autotuner.run).

\* self.key_idx = [arg_names.index(k) for k in key]   (1-based here)
KeyIdx(arg_names, keyspec) == [i \in 1..Len(keyspec) |-> IndexOf(arg_names, keyspec[i])]

\* _args: the values of the declared arguments present in all_args, compacted.
RECURSIVE PresentArgs(_, _, _)
PresentArgs(names, present, val) ==
  IF names = <<>> THEN <<>>
  ELSE (IF Head(names) \in present THEN <<val[Head(names)]>> ELSE <<>>)
       \o PresentArgs(Tail(names), present, val)

KeyVal(a) == [arg |-> a, str |-> ""]
KeyStr(s) == [arg |-> Num(0), str |-> s]

RECURSIVE DtypeStrings(_)
DtypeStrings(as) ==
  IF as = <<>> THEN <<>>
  ELSE (IF Head(as).dtype # NoDtype THEN <<KeyStr(Head(as).dtype)>> ELSE <<>>)
       \o DtypeStrings(Tail(as))

\* key = tuple([_args[i] for i in self.key_idx] + [str(arg.dtype) for arg in
\* _args if hasattr(arg, "dtype")]); _args[i] raises IndexError past the end.
CacheKeyOf(arg_names, keyspec, c) ==
  LET _args == PresentArgs(arg_names, Supplied(c, arg_names), c.val)
      kidx == KeyIdx(arg_names, keyspec)
  IN IF \E i \in 1..Len(kidx) : kidx[i] > Len(_args)
       THEN [ok |-> FALSE, key |-> <<>>]
       ELSE [ok |-> TRUE,
             key |-> [i \in 1..Len(kidx) |-> KeyVal(_args[kidx[i]])]
                     \o DtypeStrings(_args)]

-----------------------------------------------------------------------------
\* Timings. do_bench returns the quantiles (0.5, 0.2, 0.8) as a list,
\* do_bench_cudagraph the median as a scalar.

DirectTimings == {t \in Lats \X Lats \X Lats : t[2] <= t[1] /\ t[1] <= t[3]}
Measurements(cuda) == IF cuda THEN Lats ELSE DirectTimings

\* float("inf") if self.use_cuda_graph else [float("inf")] * 3
Sentinel(cuda) == IF cuda THEN Inf ELSE <<Inf, Inf, Inf>>

\* Python's < on two floats, or on two lists of three floats (lexicographic).
TimingLess(a, b, cuda) ==
  IF cuda THEN a < b
  ELSE \/ a[1] < b[1]
       \/ a[1] = b[1] /\ a[2] < b[2]
       \/ a[1] = b[1] /\ a[2] = b[2] /\ a[3] < b[3]

\* timings[config] = t on an insertion-ordered dict.
DictPut(d, c, t) ==
  IF \E i \in 1..Len(d) : d[i].config = c
    THEN [i \in 1..Len(d) |-> IF d[i].config = c THEN [config |-> c, t |-> t] ELSE d[i]]
    ELSE Append(d, [config |-> c, t |-> t])

\* builtins.min(timings, key=timings.get) on a non-empty dict: the position
\* of the first entry no later entry is smaller than.
RECURSIVE MinPos(_, _, _, _)
MinPos(d, i, best, cuda) ==
  IF i > Len(d) THEN best
  ELSE MinPos(d, i + 1, IF TimingLess(d[i].t, d[best].t, cuda) THEN i ELSE best, cuda)

\* taking the first measured entry instead of the minimum
BuiltinsFirst(d, cuda) == d[1]

\* builtins.max in place of builtins.min
BuiltinsMax(d, cuda) == d[MinPos([i \in 1..Len(d) |-> d[Len(d) + 1 - i]], 2, 1, cuda)]

\* among equal minima the entry inserted last
BuiltinsMinLastSeen(d, cuda) ==
  LET rev == [i \in 1..Len(d) |-> d[Len(d) + 1 - i]]
  IN rev[MinPos(rev, 2, 1, cuda)]

BuiltinsMin(d, cuda) == d[MinPos(d, 2, 1, cuda)]

\* the test of lines 308-310
IsSentinelTiming(t, cuda) == (cuda /\ t = Inf) \/ (~cuda /\ t[1] = Inf)

-----------------------------------------------------------------------------
\* Pruning (Autotuner.prune_configs). Configurations are named by their
\* position in self.configs.

\* sorted(est_timing.keys(), key=...) : a stable sort by predicted cost.
RECURSIVE InsertByCost(_, _, _)
InsertByCost(sorted, c, cost) ==
  IF sorted = <<>> THEN <<c>>
  ELSE IF cost[c] < cost[Head(sorted)] THEN <<c>> \o sorted
       ELSE <<Head(sorted)>> \o InsertByCost(Tail(sorted), c, cost)

\* the candidates left in the order they were given, not ranked
Unsorted(s, cost) == s

RECURSIVE SortedByCost(_, _)
SortedByCost(s, cost) ==
  IF s = <<>> THEN <<>>
  ELSE InsertByCost(SortedByCost(SubSeq(s, 1, Len(s) - 1), cost), s[Len(s)], cost)

\* top_k as a count: int(len(self.configs) * top_k) for a float <= 1.0
TopK(e) ==
  IF e.top_k.frac THEN (Len(e.configs) * e.top_k.num) \div e.top_k.den
  ELSE e.top_k.num

PruneConfigs(e) ==
  LET all == [i \in 1..Len(e.configs) |-> i]
      early == IF e.early THEN SeqFilter(all, e.earlyKeep) ELSE all
  IN IF e.perf /\ Len(early) > TopK(e)
       THEN SubSeq(SortedByCost(early, e.cost), 1, TopK(e))
       ELSE early

-----------------------------------------------------------------------------
\* The built-in hook pair (Autotuner.__init__). b: content of the tensor
\* arguments by position in args; rc: self.restore_copies.

PreHook(e, b, rc, reset_only) ==
  LET zeroed == [i \in DOMAIN b |-> IF i \in Range(e.reset_idx) THEN 0 ELSE b[i]]
  IN [buf |-> zeroed,
      copies |-> IF reset_only THEN rc
                 ELSE [k \in 1..Len(e.restore_idx) |-> zeroed[e.restore_idx[k]]]]

\* a post-hook that drops the snapshot without copying it back
PostHookNoCopy(e, b, rc) == [buf |-> b, copies |-> <<>>]

PostHook(e, b, rc) ==
  IF e.restore_idx = <<>> THEN [buf |-> b, copies |-> rc]
  ELSE [buf |-> [i \in DOMAIN b |->
                   IF i \in Range(e.restore_idx)
                     THEN rc[IndexOf(e.restore_idx, i)] ELSE b[i]],
        copies |-> <<>>]

-----------------------------------------------------------------------------
\* The engines and calls explored.

EmptyMap == [k \in {} |-> 0]

\* no ConfigSpace was constructed: the engine was given its configurations
NoSpace == [kwargs |-> <<>>, num_warps |-> <<>>, num_ctas |-> <<>>, num_stages |-> <<>>,
            enable_warp_specialization |-> <<>>, pre_hook |-> FALSE,
            kwarg_conditions |-> <<>>]
NoCall == [pos |-> 0, kw |-> {}, val |-> EmptyMap]

\* triton.Config(kwargs, pre_hook=...)
Config(kw, hook) == [kwargs |-> kw, pre_hook |-> hook]

ThreeConfigs == <<Config([B |-> 16], FALSE), Config([B |-> 32], TRUE),
                  Config([B |-> 64], FALSE)>>
MixedConfigs == <<Config(EmptyMap, FALSE), Config([B |-> 32], TRUE)>>
OneConfig == <<Config([B |-> 16], TRUE)>>

\* prune_configs_by: None, an early_config_prune, or a perf_model with top_k
NoPrune == [early |-> FALSE, earlyKeep |-> <<>>, perf |-> FALSE, cost |-> <<>>,
            top_k |-> [frac |-> TRUE, num |-> 1, den |-> 1]]

\* a cost model that ranks the second configuration first, with top_k=2
RankedTopTwo == [early |-> FALSE, earlyKeep |-> <<>>, perf |-> TRUE, cost |-> <<3, 1, 2>>,
                 top_k |-> [frac |-> FALSE, num |-> 2, den |-> 1]]
\* an early_config_prune that rejects every configuration
RejectAll == [early |-> TRUE, earlyKeep |-> <<FALSE, FALSE>>, perf |-> FALSE, cost |-> <<>>,
              top_k |-> [frac |-> TRUE, num |-> 1, den |-> 1]]
\* a cost model with top_k=0.25: of three configurations int(3 * 0.25) = 0
\* are kept
TopQuarter == [early |-> FALSE, earlyKeep |-> <<>>, perf |-> TRUE, cost |-> <<1, 2, 3>>,
               top_k |-> [frac |-> TRUE, num |-> 1, den |-> 4]]

Engine(names, ks, cs, rs, rt, cg, pr) ==
  [arg_names |-> names, keyspec |-> ks, configs |-> cs, reset_idx |-> rs,
   restore_idx |-> rt, cuda |-> cg, early |-> pr.early, earlyKeep |-> pr.earlyKeep,
   perf |-> pr.perf, cost |-> pr.cost, top_k |-> pr.top_k]

MainArgNames == <<"x", "n", "m", "B">>

Engines ==
  {Engine(MainArgNames, <<"n">>, ThreeConfigs, <<>>, <<1>>, TRUE, NoPrune),
   Engine(MainArgNames, <<"n">>, ThreeConfigs, <<1>>, <<>>, TRUE, NoPrune),
   Engine(MainArgNames, <<"n">>, MixedConfigs, <<1>>, <<1>>, FALSE, NoPrune),
   Engine(MainArgNames, <<"n">>, MixedConfigs, <<>>, <<>>, FALSE, NoPrune),
   Engine(MainArgNames, <<"n">>, OneConfig, <<1>>, <<1>>, FALSE, NoPrune),
   Engine(MainArgNames, <<"n">>, ThreeConfigs, <<>>, <<>>, TRUE, RankedTopTwo),
   Engine(MainArgNames, <<"n">>, MixedConfigs, <<>>, <<1>>, TRUE, RejectAll),
   Engine(MainArgNames, <<"n">>, ThreeConfigs, <<>>, <<>>, TRUE, TopQuarter)}

\* x positionally, n and m by keyword, the tunable B left to the
\* configuration or passed by keyword.
MainCalls ==
  {[pos |-> 1, kw |-> kws,
    val |-> [x |-> Tensor(d, "f32"), n |-> Num(k), m |-> Num(1), B |-> Num(16)]] :
     kws \in {{"n", "m"}, {"n", "m", "B"}}, d \in Vals, k \in KeyVals}

\* what restore_autotuner_cache may return at construction
RestoredCaches(e) ==
  {EmptyMap} \cup
  {[k \in {CacheKeyOf(e.arg_names, e.keyspec, c).key} |-> 1] :
     c \in {c \in MainCalls : c.val.n = Num(1)}}

-----------------------------------------------------------------------------
\* State machine.

Idle ==
  /\ pc = "idle" /\ call = NoCall /\ key = <<>> /\ pruned = <<>> /\ idx = 0
  /\ timings = <<>> /\ rep = 0 /\ buf = EmptyMap
  /\ used_cached_result = TRUE /\ config = 0 /\ err = "" /\ measured = FALSE
  /\ callEv = <<>> /\ tail = <<>> /\ warmed = <<>>

Init ==
  /\ config_space = NoSpace /\ config_list = <<>> /\ condition_calls = <<>>
  /\ eng \in Engines
  /\ cache \in RestoredCaches(eng)
  /\ _timings = EmptyMap
  /\ store = <<>>
  /\ restore_copies = <<>>
  /\ Idle

\* self.cache = {key: winner}: the other entries are lost
MapPutAlone(f, k, v) == [x \in {k} |-> v]

MapPut(f, k, v) == [x \in DOMAIN f \cup {k} |-> IF x = k THEN v ELSE f[x]]

\* the tensor arguments of args, by position
Buffers(c, arg_names) ==
  [i \in {i \in 1..c.pos : c.val[arg_names[i]].dtype # NoDtype} |-> c.val[arg_names[i]].v]

\* Run without the cache lookup of line 295: every call benchmarks.
RunIgnoresCache(c) ==
  /\ pc = "idle"
  /\ call' = c
  /\ buf' = Buffers(c, eng.arg_names)
  /\ UNCHANGED <<condition_calls, config_space, config_list, eng, cache, _timings, store, timings, rep, restore_copies,
                 measured, callEv, tail, warmed>>
  /\ IF Len(eng.configs) > 1
       THEN LET k == CacheKeyOf(eng.arg_names, eng.keyspec, c)
            IN IF ~k.ok
                 THEN /\ pc' = "raised" /\ err' = "IndexError"
                      /\ UNCHANGED <<key, pruned, idx, used_cached_result, config>>
                 ELSE /\ key' = k.key /\ used_cached_result' = FALSE
                      /\ pruned' = PruneConfigs(eng) /\ idx' = 1 /\ pc' = "bench"
                      /\ UNCHANGED <<config, err>>
       ELSE /\ config' = 1 /\ pc' = "prod"
            /\ UNCHANGED <<key, pruned, idx, used_cached_result, err>>

\* Run with the test of line 284 as len(self.configs) > 0: a single
\* configuration is tuned like several.
RunAlwaysTunes(c) ==
  /\ pc = "idle"
  /\ call' = c
  /\ buf' = Buffers(c, eng.arg_names)
  /\ UNCHANGED <<condition_calls, config_space, config_list, eng, cache, _timings, store, timings, rep,
                 restore_copies, measured, callEv, tail, warmed>>
  /\ IF Len(eng.configs) > 0
       THEN LET k == CacheKeyOf(eng.arg_names, eng.keyspec, c)
            IN IF ~k.ok
                 THEN /\ pc' = "raised" /\ err' = "IndexError"
                      /\ UNCHANGED <<key, pruned, idx, used_cached_result, config>>
                 ELSE IF k.key \in DOMAIN cache
                   THEN /\ key' = k.key /\ config' = cache[k.key] /\ pc' = "prod"
                        /\ UNCHANGED <<pruned, idx, used_cached_result, err>>
                   ELSE /\ key' = k.key /\ used_cached_result' = FALSE
                        /\ pruned' = PruneConfigs(eng) /\ idx' = 1 /\ pc' = "bench"
                        /\ UNCHANGED <<config, err>>
       ELSE /\ config' = 1 /\ pc' = "prod"
            /\ UNCHANGED <<key, pruned, idx, used_cached_result, err>>

\* Run that calls the engine's pre-hook in reset-only mode on a cache hit and
\* on the single-configuration path as well
RunResetsAlways(c) ==
  /\ pc = "idle"
  /\ call' = c
  /\ UNCHANGED <<condition_calls, config_space, config_list, eng, cache, _timings, store, timings, rep, restore_copies,
                 measured, callEv, tail, warmed>>
  /\ IF Len(eng.configs) > 1
       THEN LET k == CacheKeyOf(eng.arg_names, eng.keyspec, c)
            IN IF ~k.ok
                 THEN /\ pc' = "raised" /\ err' = "IndexError"
                      /\ buf' = Buffers(c, eng.arg_names)
                      /\ UNCHANGED <<key, pruned, idx, used_cached_result, config>>
                 ELSE IF k.key \in DOMAIN cache
                   THEN /\ key' = k.key /\ config' = cache[k.key] /\ pc' = "prod"
                        /\ buf' = PreHook(eng, Buffers(c, eng.arg_names), restore_copies, TRUE).buf
                        /\ UNCHANGED <<pruned, idx, used_cached_result, err>>
                   ELSE /\ key' = k.key /\ used_cached_result' = FALSE
                        /\ buf' = Buffers(c, eng.arg_names)
                        /\ pruned' = PruneConfigs(eng) /\ idx' = 1 /\ pc' = "bench"
                        /\ UNCHANGED <<config, err>>
       ELSE /\ config' = 1 /\ pc' = "prod"
            /\ buf' = PreHook(eng, Buffers(c, eng.arg_names), restore_copies, TRUE).buf
            /\ UNCHANGED <<key, pruned, idx, used_cached_result, err>>

\* Autotuner.run up to the cache lookup (lines 281-298).
Run(c) ==
  /\ pc = "idle"
  /\ call' = c
  /\ buf' = Buffers(c, eng.arg_names)
  /\ UNCHANGED <<condition_calls, config_space, config_list, eng, cache, _timings, store, timings, rep, restore_copies,
                 measured, callEv, tail, warmed>>
  /\ IF Len(eng.configs) > 1
       THEN LET k == CacheKeyOf(eng.arg_names, eng.keyspec, c)
            IN IF ~k.ok
                 THEN /\ pc' = "raised" /\ err' = "IndexError"
                      /\ UNCHANGED <<key, pruned, idx, used_cached_result, config>>
                 ELSE IF k.key \in DOMAIN cache
                   THEN /\ key' = k.key /\ config' = cache[k.key] /\ pc' = "prod"
                        /\ UNCHANGED <<pruned, idx, used_cached_result, err>>
                   ELSE /\ key' = k.key /\ used_cached_result' = FALSE
                        /\ pruned' = PruneConfigs(eng) /\ idx' = 1 /\ pc' = "bench"
                        /\ UNCHANGED <<config, err>>
       ELSE /\ config' = 1 /\ pc' = "prod"
            /\ UNCHANGED <<key, pruned, idx, used_cached_result, err>>

\* meta.keys() & config.kwargs.keys() in _bench: meta is the call's kwargs
Conflicts(c, cfg) == c.kw \cap DOMAIN cfg.kwargs

Benching == pc = "bench" /\ idx <= Len(pruned)
CurConfig == eng.configs[pruned[idx]]

\* _bench raising ValueError (lines 201-206).
BenchConflict ==
  /\ Benching /\ rep = 0
  /\ Conflicts(call, CurConfig) # {}
  /\ pc' = "raised" /\ err' = "Conflict"
  /\ UNCHANGED <<condition_calls, config_space, config_list, eng, cache, _timings, store, call, key, pruned, idx, timings, rep, buf,
                 restore_copies, used_cached_result, config, measured, callEv,
                 tail, warmed>>

\* the engine's pre-hook ahead of the configuration's own
CallHeadEngineFirst(cfg) ==
  <<"pre_hook">> \o (IF cfg.pre_hook THEN <<"config.pre_hook">> ELSE <<>>) \o <<"fn.run">>

\* what kernel_call invokes before self.fn.run
CallHead(cfg) == (IF cfg.pre_hook THEN <<"config.pre_hook">> ELSE <<>>) \o <<"pre_hook", "fn.run">>

\* One kernel_call made by do_bench in which self.fn.run returns, having
\* written w to its tensor arguments (lines 213-235).
KernelCallOk(w) ==
  /\ Benching /\ rep < MaxReps
  /\ Conflicts(call, CurConfig) = {}
  /\ LET pre == PreHook(eng, buf, restore_copies, FALSE)
         ran == [i \in DOMAIN buf |-> w]
         post == PostHook(eng, ran, pre.copies)
     IN /\ buf' = post.buf
        /\ restore_copies' = post.copies
  /\ rep' = rep + 1
  /\ measured' = TRUE
  /\ callEv' = CallHead(CurConfig) \o <<"post_hook">>
  /\ UNCHANGED <<condition_calls, config_space, config_list, eng, cache, _timings, store, pc, call, key, pruned, idx, timings,
                 used_cached_result, config, err, tail, warmed>>

\* do_bench returns the measurement t (lines 239-251), or raises an
\* AssertionError of its own, which _bench turns into the sentinel.
BenchReturn(t) ==
  /\ Benching /\ rep >= 1
  /\ timings' = DictPut(timings, pruned[idx], t)
  /\ idx' = idx + 1
  /\ rep' = 0
  /\ UNCHANGED <<condition_calls, config_space, config_list, eng, cache, _timings, store, pc, call, key, pruned, buf, restore_copies,
                 used_cached_result, config, err, measured, callEv, tail, warmed>>

\* A kernel_call in which self.fn.run raises OutOfResources,
\* CompileTimeAssertionFailure or AssertionError: _bench returns the
\* sentinel (lines 252-264); post_hook is not reached.
KernelCallFails ==
  /\ Benching /\ rep < MaxReps
  /\ Conflicts(call, CurConfig) = {}
  /\ LET pre == PreHook(eng, buf, restore_copies, FALSE)
     IN /\ buf' = pre.buf
        /\ restore_copies' = pre.copies
  /\ measured' = TRUE
  /\ callEv' = CallHead(CurConfig)
  /\ timings' = DictPut(timings, pruned[idx], Sentinel(eng.cuda))
  /\ idx' = idx + 1
  /\ rep' = 0
  /\ UNCHANGED <<condition_calls, config_space, config_list, eng, cache, _timings, store, pc, call, key, pruned,
                 used_cached_result, config, err, tail, warmed>>

\* the exception leaves run, which first records the failing candidate
KernelCallRaisesAfterCaching ==
  /\ Benching /\ rep < MaxReps
  /\ Conflicts(call, CurConfig) = {}
  /\ LET pre == PreHook(eng, buf, restore_copies, FALSE)
     IN /\ buf' = pre.buf
        /\ restore_copies' = pre.copies
  /\ cache' = [x \in DOMAIN cache \cup {key} |-> IF x = key THEN pruned[idx] ELSE cache[x]]
  /\ measured' = TRUE
  /\ callEv' = CallHead(CurConfig)
  /\ pc' = "raised" /\ err' = "KernelError"
  /\ UNCHANGED <<condition_calls, config_space, config_list, eng, _timings, store, call, key, pruned, idx, timings, rep,
                 used_cached_result, config, tail, warmed>>

\* A kernel_call in which self.fn.run raises anything else: the exception
\* leaves _bench and run.
KernelCallRaises ==
  /\ Benching /\ rep < MaxReps
  /\ Conflicts(call, CurConfig) = {}
  /\ LET pre == PreHook(eng, buf, restore_copies, FALSE)
     IN /\ buf' = pre.buf
        /\ restore_copies' = pre.copies
  /\ measured' = TRUE
  /\ callEv' = CallHead(CurConfig)
  /\ pc' = "raised" /\ err' = "KernelError"
  /\ UNCHANGED <<condition_calls, config_space, config_list, eng, cache, _timings, store, call, key, pruned, idx, timings, rep,
                 used_cached_result, config, tail, warmed>>

\* a pass without candidates settles on the first configuration
SelectDefaultsToFirst ==
  /\ pc = "bench" /\ idx > Len(pruned)
  /\ LET best == IF timings = <<>> THEN [config |-> 1, t |-> Sentinel(eng.cuda)]
                 ELSE BuiltinsMin(timings, eng.cuda)
     IN /\ cache' = MapPut(cache, key, best.config)
        /\ _timings' = MapPut(_timings, key, best.t)
        /\ tail' = Append(tail, "cache")
        /\ IF timings # <<>> /\ IsSentinelTiming(best.t, eng.cuda)
             THEN pc' = "raised" /\ err' = "AllFailed"
             ELSE pc' = "reset" /\ UNCHANGED err
  /\ UNCHANGED <<condition_calls, config_space, config_list, eng, store, call, key, pruned, idx,
                 timings, rep, buf, restore_copies, used_cached_result, config,
                 measured, callEv, warmed>>

\* The end of the benchmarking pass (lines 304-314): the winner is stored
\* in self.cache and self._timings, then the sentinel test may raise.
\* builtins.min of an empty dict raises ValueError before anything is stored.
Select ==
  /\ pc = "bench" /\ idx > Len(pruned)
  /\ IF timings = <<>>
       THEN /\ pc' = "raised" /\ err' = "MinOfEmpty"
            /\ UNCHANGED <<cache, _timings, tail>>
       ELSE LET best == BuiltinsMin(timings, eng.cuda)
            IN /\ cache' = MapPut(cache, key, best.config)
               /\ _timings' = MapPut(_timings, key, best.t)
               /\ tail' = Append(tail, "cache")
               /\ IF IsSentinelTiming(best.t, eng.cuda)
                    THEN pc' = "raised" /\ err' = "AllFailed"
                    ELSE pc' = "reset" /\ UNCHANGED err
  /\ UNCHANGED <<condition_calls, config_space, config_list, eng, store, call, key, pruned, idx, timings, rep, buf,
                 restore_copies, used_cached_result, config, measured, callEv,
                 warmed>>

\* line 316 alone: the reset-only call of the pre-hook is left out
ResetOnlySkipped ==
  /\ pc = "reset"
  /\ config' = cache[key]
  /\ pc' = "push"
  /\ UNCHANGED <<condition_calls, config_space, config_list, eng, cache, _timings, store, call, key,
                 pruned, idx, timings, rep, buf, restore_copies, used_cached_result,
                 err, measured, callEv, tail, warmed>>

\* self.pre_hook(args, reset_only=True); config = self.cache[key]
\* (lines 315-316).
ResetOnly ==
  /\ pc = "reset"
  /\ LET pre == PreHook(eng, buf, restore_copies, TRUE)
     IN /\ buf' = pre.buf
        /\ restore_copies' = pre.copies
  /\ tail' = Append(tail, "pre_hook")
  /\ config' = cache[key]
  /\ pc' = "push"
  /\ UNCHANGED <<condition_calls, config_space, config_list, eng, cache, _timings, store, call, key, pruned, idx, timings, rep,
                 used_cached_result, err, measured, callEv, warmed>>

\* the call of add_autotuner_cache is left out
PushSkipped ==
  /\ pc = "push"
  /\ ~used_cached_result
  /\ pc' = "prod"
  /\ UNCHANGED <<condition_calls, config_space, config_list, eng, cache, _timings, store, call, key,
                 pruned, idx, timings, rep, buf, restore_copies, used_cached_result,
                 config, err, measured, callEv, tail, warmed>>

\* global_dejavu_storage.add_autotuner_cache(self.cache, ..., self._timings,
\* ...) (lines 320-332), reached only with used_cached_result false.
Push ==
  /\ pc = "push"
  /\ ~used_cached_result
  /\ store' = Append(store, [cache |-> cache, timings |-> _timings])
  /\ tail' = Append(tail, "add_autotuner_cache")
  /\ pc' = "prod"
  /\ UNCHANGED <<condition_calls, config_space, config_list, eng, cache, _timings, call, key, pruned, idx, timings, rep, buf,
                 restore_copies, used_cached_result, config, err, measured,
                 callEv, warmed>>

\* what run invokes from line 338 on
ProdEvents == (IF eng.configs[config].pre_hook THEN <<"config.pre_hook">> ELSE <<>>) \o <<"fn.run">>

\* The production dispatch (lines 338-360): self.fn.run returns, having
\* written w to its tensor arguments.
Production(w) ==
  /\ pc = "prod"
  /\ tail' = tail \o ProdEvents
  /\ buf' = [i \in DOMAIN buf |-> w]
  /\ pc' = "done"
  /\ UNCHANGED <<condition_calls, config_space, config_list, eng, cache, _timings, store, call, key, pruned, idx, timings, rep,
                 restore_copies, used_cached_result, config, err, measured,
                 callEv, warmed>>

\* The production dispatch when self.fn.run raises.
ProductionRaises ==
  /\ pc = "prod"
  /\ tail' = tail \o ProdEvents
  /\ pc' = "raised" /\ err' = "KernelError"
  /\ UNCHANGED <<condition_calls, config_space, config_list, eng, cache, _timings, store, call, key, pruned, idx, timings, rep, buf,
                 restore_copies, used_cached_result, config, measured, callEv,
                 warmed>>

\* the first candidate whose kwargs name a parameter the call's kwargs name
\* too (one past the end if there is none): passing both to self.fn.warmup
\* is a TypeError of the call expression
FirstClash(c, cands) ==
  IF \E i \in 1..Len(cands) : Conflicts(c, eng.configs[cands[i]]) # {}
    THEN CHOOSE i \in 1..Len(cands) :
           /\ Conflicts(c, eng.configs[cands[i]]) # {}
           /\ \A j \in 1..(i - 1) : Conflicts(c, eng.configs[cands[j]]) = {}
    ELSE Len(cands) + 1

\* warmup that prepares the first candidate only
WarmupFirstOnly(c, n) ==
  /\ pc = "idle"
  /\ call' = c
  /\ pruned' = PruneConfigs(eng)
  /\ warmed' = SubSeq(pruned', 1, 1)
  /\ pc' = "warmed"
  /\ UNCHANGED <<condition_calls, config_space, config_list, eng, cache, _timings, store, key, idx,
                 timings, rep, buf, restore_copies, used_cached_result, config, err,
                 measured, callEv, tail>>

\* Autotuner.warmup (lines 400-428): self.fn.warmup for every pruned
\* configuration in turn; n of these calls return before one raises (none
\* raises if n is the number of candidates). warmed: the candidates
\* self.fn.warmup was invoked with.
Warmup(c, n) ==
  /\ pc = "idle"
  /\ call' = c
  /\ pruned' = PruneConfigs(eng)
  /\ n \in 0..Len(pruned')
  /\ LET clash == FirstClash(c, pruned')
     IN IF n + 1 < clash /\ n < Len(pruned')
          THEN /\ warmed' = SubSeq(pruned', 1, n + 1)
               /\ pc' = "warmup_raised" /\ err' = "KernelError"
          ELSE IF clash <= Len(pruned')
            THEN /\ warmed' = SubSeq(pruned', 1, clash - 1)
                 /\ pc' = "warmup_raised" /\ err' = "TypeError"
            ELSE /\ warmed' = pruned'
                 /\ pc' = "warmed" /\ UNCHANGED err
  /\ UNCHANGED <<condition_calls, config_space, config_list, eng, cache, _timings, store, key, idx,
                 timings, rep, buf, restore_copies, used_cached_result, config,
                 measured, callEv, tail>>

\* The call is over (it returned or raised); the caller may call again.
Return ==
  /\ pc \in {"done", "raised", "warmed", "warmup_raised"}
  /\ pc' = "idle" /\ call' = NoCall /\ key' = <<>> /\ pruned' = <<>> /\ idx' = 0
  /\ timings' = <<>> /\ rep' = 0 /\ buf' = EmptyMap
  /\ used_cached_result' = TRUE /\ config' = 0 /\ err' = "" /\ measured' = FALSE
  /\ callEv' = <<>> /\ tail' = <<>> /\ warmed' = <<>>
  /\ UNCHANGED <<condition_calls, config_space, config_list, eng, cache, _timings, store, restore_copies>>

Next ==
  \/ \E c \in MainCalls : Run(c)
  \/ BenchConflict
  \/ \E w \in Vals : KernelCallOk(w)
  \/ \E t \in Measurements(eng.cuda) \cup {Sentinel(eng.cuda)} : BenchReturn(t)
  \/ KernelCallFails
  \/ KernelCallRaises
  \/ Select
  \/ ResetOnly
  \/ Push
  \/ \E w \in Vals : Production(w)
  \/ ProductionRaises
  \/ \E c \in MainCalls : \E n \in 0..Len(eng.configs) : Warmup(c, n)
  \/ Return

Spec == Init /\ [][Next]_vars

-----------------------------------------------------------------------------
\* Key derivation on its own: engines whose kernel declares the tunable B
\* last or before the key arguments, called in every way Python allows
\* (a positional prefix, the rest by keyword, B possibly left to the
\* configuration).

KeyArgOrders == {<<"x", "n", "m", "B">>, <<"x", "B", "n", "m">>}
KeySpecs == {<<"n">>, <<"m">>, <<"n", "m">>}

KeyEngines ==
  {Engine(names, ks, ThreeConfigs, <<>>, <<>>, TRUE, NoPrune) :
     names \in KeyArgOrders, ks \in KeySpecs}

KeyCalls(e) ==
  {[pos |-> p, kw |-> (Range(e.arg_names) \ {e.arg_names[i] : i \in 1..p}) \ omit,
    val |-> [x |-> Tensor(0, dt), n |-> Num(kn), m |-> Num(km), B |-> Num(16)]] :
     p \in 0..Len(e.arg_names),
     omit \in {{}, {"B"}},
     dt \in Dtypes, kn \in KeyVals, km \in KeyVals}

InitKey ==
  /\ config_space = NoSpace /\ config_list = <<>> /\ condition_calls = <<>>
  /\ eng \in KeyEngines
  /\ cache = EmptyMap
  /\ _timings = EmptyMap
  /\ store = <<>>
  /\ restore_copies = <<>>
  /\ Idle

NextKey ==
  \/ \E c \in KeyCalls(eng) : Run(c)
  \/ Return

SpecKey == InitKey /\ [][NextKey]_vars

-----------------------------------------------------------------------------
\* Pruning on its own: engines of four configurations with every outcome of
\* an early_config_prune, every cost assignment of a perf_model and top_k
\* given as a count or as a float <= 1.0, pruned by a warmup in which no
\* self.fn.warmup raises.

MaxCost == 3
Costs == 1..MaxCost

FourConfigs == <<Config([B |-> 16], FALSE), Config([B |-> 32], FALSE),
                 Config([B |-> 64], FALSE), Config([B |-> 128], FALSE)>>

\* top_k as an int (0 .. one more than the configurations), or as the float
\* num/den <= 1.0; with four configurations 4 * (num/den) is exact in
\* floating point, so int() of it is the floor of the exact product
TopKs ==
  {[frac |-> FALSE, num |-> n, den |-> 1] : n \in 0..(Len(FourConfigs) + 1)} \cup
  {t \in [frac : {TRUE}, num : 0..Len(FourConfigs), den : 2..Len(FourConfigs)] :
     t.num <= t.den}

\* prune_configs_by with a perf_model, its top_k and possibly an
\* early_config_prune that keeps the candidates marked in keep
PrunePolicy(early, keep, cost, k) ==
  [early |-> early, earlyKeep |-> keep, perf |-> TRUE, cost |-> cost, top_k |-> k]

PruneCalls == {c \in MainCalls : c.kw = {"n", "m"} /\ c.val.n = Num(1)}

InitPrune ==
  /\ config_space = NoSpace /\ config_list = <<>> /\ condition_calls = <<>>
  /\ \E early \in BOOLEAN :
       \E keep \in (IF early THEN [1..Len(FourConfigs) -> BOOLEAN] ELSE {<<>>}) :
         \E cost \in [1..Len(FourConfigs) -> Costs] :
           \E k \in TopKs :
             eng = Engine(MainArgNames, <<"n">>, FourConfigs, <<>>, <<>>, TRUE,
                          PrunePolicy(early, keep, cost, k))
  /\ cache = EmptyMap
  /\ _timings = EmptyMap
  /\ store = <<>>
  /\ restore_copies = <<>>
  /\ Idle

NextPrune ==
  \/ \E c \in PruneCalls : Warmup(c, Len(PruneConfigs(eng)))
  \/ Return

SpecPrune == InitPrune /\ [][NextPrune]_vars

-----------------------------------------------------------------------------
\* Concurrent callers: two threads call run on one engine instance. The
\* engine's fields (cache, _timings) and the storage are shared; here the
\* locals of run (pc, call, key, pruned, idx, timings, used_cached_result,
\* config, err) are functions of the thread. The interpreter may switch
\* threads between any two statements; the switches explored are those
\* around a whole _bench call, the selection, the push and the production
\* dispatch. The engine has no reset/restore arguments (its hook pair does
\* nothing); every call has the same key arguments and leaves the tunable B
\* to the configurations.

Threads == {"t1", "t2"}

ConcEngine == Engine(MainArgNames, <<"n">>, MixedConfigs, <<>>, <<>>, TRUE, NoPrune)

ConcCalls == {c \in MainCalls : c.kw = {"n", "m"} /\ c.val.x.v = 0 /\ c.val.n = Num(1)}

InitConc ==
  /\ config_space = NoSpace /\ config_list = <<>> /\ condition_calls = <<>>
  /\ eng = ConcEngine
  /\ cache = EmptyMap
  /\ _timings = EmptyMap
  /\ store = <<>>
  /\ restore_copies = <<>>
  /\ pc = [t \in Threads |-> "idle"]
  /\ call = [t \in Threads |-> NoCall]
  /\ key = [t \in Threads |-> <<>>]
  /\ pruned = [t \in Threads |-> <<>>]
  /\ idx = [t \in Threads |-> 0]
  /\ timings = [t \in Threads |-> <<>>]
  /\ used_cached_result = [t \in Threads |-> TRUE]
  /\ config = [t \in Threads |-> 0]
  /\ err = [t \in Threads |-> ""]
  /\ rep = 0 /\ buf = EmptyMap /\ measured = FALSE
  /\ callEv = <<>> /\ tail = <<>> /\ warmed = <<>>

\* what no thread's step touches
ConcFrame == UNCHANGED <<condition_calls, config_space, config_list, eng, restore_copies, rep, buf, measured, callEv, tail, warmed>>

\* run up to the cache lookup (lines 281-298), by thread t
RunT(t, c) ==
  /\ pc[t] = "idle"
  /\ call' = [call EXCEPT ![t] = c]
  /\ LET k == CacheKeyOf(eng.arg_names, eng.keyspec, c)
     IN IF ~k.ok
          THEN /\ pc' = [pc EXCEPT ![t] = "raised"]
               /\ err' = [err EXCEPT ![t] = "IndexError"]
               /\ UNCHANGED <<key, pruned, idx, used_cached_result, config>>
          ELSE IF k.key \in DOMAIN cache
            THEN /\ key' = [key EXCEPT ![t] = k.key]
                 /\ config' = [config EXCEPT ![t] = cache[k.key]]
                 /\ pc' = [pc EXCEPT ![t] = "prod"]
                 /\ UNCHANGED <<pruned, idx, used_cached_result, err>>
            ELSE /\ key' = [key EXCEPT ![t] = k.key]
                 /\ used_cached_result' = [used_cached_result EXCEPT ![t] = FALSE]
                 /\ pruned' = [pruned EXCEPT ![t] = PruneConfigs(eng)]
                 /\ idx' = [idx EXCEPT ![t] = 1]
                 /\ pc' = [pc EXCEPT ![t] = "bench"]
                 /\ UNCHANGED <<config, err>>
  /\ UNCHANGED <<cache, _timings, store, timings>>
  /\ ConcFrame

\* one whole _bench call of thread t returning m: a measurement, or the
\* sentinel after a tuning failure (lines 195-264)
TrialT(t, m) ==
  /\ pc[t] = "bench" /\ idx[t] <= Len(pruned[t])
  /\ Conflicts(call[t], eng.configs[pruned[t][idx[t]]]) = {}
  /\ timings' = [timings EXCEPT ![t] = DictPut(timings[t], pruned[t][idx[t]], m)]
  /\ idx' = [idx EXCEPT ![t] = idx[t] + 1]
  /\ UNCHANGED <<cache, _timings, store, pc, call, key, pruned, used_cached_result,
                 config, err>>
  /\ ConcFrame

\* a _bench call of thread t left by another exception
TrialRaisesT(t) ==
  /\ pc[t] = "bench" /\ idx[t] <= Len(pruned[t])
  /\ Conflicts(call[t], eng.configs[pruned[t][idx[t]]]) = {}
  /\ pc' = [pc EXCEPT ![t] = "raised"]
  /\ err' = [err EXCEPT ![t] = "KernelError"]
  /\ UNCHANGED <<cache, _timings, store, call, key, pruned, idx, timings,
                 used_cached_result, config>>
  /\ ConcFrame

\* lines 304-314 by thread t
SelectT(t) ==
  /\ pc[t] = "bench" /\ idx[t] > Len(pruned[t])
  /\ IF timings[t] = <<>>
       THEN /\ pc' = [pc EXCEPT ![t] = "raised"]
            /\ err' = [err EXCEPT ![t] = "MinOfEmpty"]
            /\ UNCHANGED <<cache, _timings>>
       ELSE LET best == BuiltinsMin(timings[t], eng.cuda)
            IN /\ cache' = MapPut(cache, key[t], best.config)
               /\ _timings' = MapPut(_timings, key[t], best.t)
               /\ IF IsSentinelTiming(best.t, eng.cuda)
                    THEN /\ pc' = [pc EXCEPT ![t] = "raised"]
                         /\ err' = [err EXCEPT ![t] = "AllFailed"]
                    ELSE /\ pc' = [pc EXCEPT ![t] = "push"]
                         /\ UNCHANGED err
  /\ UNCHANGED <<store, call, key, pruned, idx, timings, used_cached_result, config>>
  /\ ConcFrame

\* lines 315-332 by thread t: config = self.cache[key], then the push
PushT(t) ==
  /\ pc[t] = "push" /\ ~used_cached_result[t]
  /\ config' = [config EXCEPT ![t] = cache[key[t]]]
  /\ store' = Append(store, [cache |-> cache, timings |-> _timings])
  /\ pc' = [pc EXCEPT ![t] = "prod"]
  /\ UNCHANGED <<cache, _timings, call, key, pruned, idx, timings, used_cached_result, err>>
  /\ ConcFrame

\* lines 338-360 by thread t; ok: self.fn.run returned
ProductionT(t, ok) ==
  /\ pc[t] = "prod"
  /\ pc' = [pc EXCEPT ![t] = IF ok THEN "done" ELSE "raised"]
  /\ err' = [err EXCEPT ![t] = IF ok THEN "" ELSE "KernelError"]
  /\ UNCHANGED <<cache, _timings, store, call, key, pruned, idx, timings,
                 used_cached_result, config>>
  /\ ConcFrame

\* the call of thread t is over
ReturnT(t) ==
  /\ pc[t] \in {"done", "raised"}
  /\ pc' = [pc EXCEPT ![t] = "idle"]
  /\ call' = [call EXCEPT ![t] = NoCall]
  /\ key' = [key EXCEPT ![t] = <<>>]
  /\ pruned' = [pruned EXCEPT ![t] = <<>>]
  /\ idx' = [idx EXCEPT ![t] = 0]
  /\ timings' = [timings EXCEPT ![t] = <<>>]
  /\ used_cached_result' = [used_cached_result EXCEPT ![t] = TRUE]
  /\ config' = [config EXCEPT ![t] = 0]
  /\ err' = [err EXCEPT ![t] = ""]
  /\ UNCHANGED <<cache, _timings, store>>
  /\ ConcFrame

NextConc ==
  \/ \E t \in Threads : \E c \in ConcCalls : RunT(t, c)
  \/ \E t \in Threads : \E m \in Measurements(eng.cuda) \cup {Sentinel(eng.cuda)} : TrialT(t, m)
  \/ \E t \in Threads : TrialRaisesT(t)
  \/ \E t \in Threads : SelectT(t)
  \/ \E t \in Threads : PushT(t)
  \/ \E t \in Threads : \E ok \in BOOLEAN : ProductionT(t, ok)
  \/ \E t \in Threads : ReturnT(t)

SpecConc == InitConc /\ [][NextConc]_vars

-----------------------------------------------------------------------------
\* ConfigSpace: construction and generate_config_list. `call` holds the
\* constructor's arguments and the environment it reads (the device
\* capability and the major version of triton).
\*  - kwargs_with_lists is a dict in insertion order: a sequence of
\*    [name, vals]; a kwarg combination is a function from names to values.
\*  - An optional list argument is Absent (None) or Given(list).
\*  - A condition is a total predicate on kwarg combinations: it accepts a
\*    combination that has BLOCK iff its BLOCK is in `accept`, and one
\*    without BLOCK iff `default`.

Absent == [none |-> TRUE, list |-> <<>>]
Given(l) == [none |-> FALSE, list |-> l]

\* condition(kwarg)
Holds(cond, kwarg) ==
  IF "BLOCK" \in DOMAIN kwarg THEN kwarg["BLOCK"] \in cond.accept ELSE cond.default

\* list(itertools.product(a, b)): the last factor varies fastest
RECURSIVE Row(_, _)
Row(x, b) == IF b = <<>> THEN <<>> ELSE <<<<x, Head(b)>>>> \o Row(x, Tail(b))

RECURSIVE Product2(_, _)
Product2(a, b) == IF a = <<>> THEN <<>> ELSE Row(Head(a), b) \o Product2(Tail(a), b)

\* dict(zip(ks, cur_combination)) of the pairs (value of the first name,
\* combination of the other names)
RECURSIVE Zipped(_, _)
Zipped(name, pairs) ==
  IF pairs = <<>> THEN <<>>
  ELSE <<[k \in DOMAIN Head(pairs)[2] \cup {name} |->
            IF k = name THEN Head(pairs)[1] ELSE Head(pairs)[2][k]]>>
       \o Zipped(name, Tail(pairs))

\* dict(zip(ks, cur_combination)) for every element of itertools.product(*vs)
\* (lines 611-617)
RECURSIVE KwargProduct(_)
KwargProduct(kvs) ==
  IF kvs = <<>> THEN <<EmptyMap>>
  ELSE Zipped(Head(kvs).name, Product2(Head(kvs).vals, KwargProduct(Tail(kvs))))

\* Config(kwargs, num_warps=, num_ctas=, num_stages=,
\* enable_warp_specialization=, pre_hook=) (lines 646-661)
SpaceConfig(kw, nw, nc, ns, ews, hook) ==
  [kwargs |-> kw, num_warps |-> nw, num_ctas |-> nc, num_stages |-> ns,
   enable_warp_specialization |-> ews, pre_hook |-> hook]

\* a combination is kept when any one condition accepts it
KeptIfAnyAccepts(conds, kwarg) == \E i \in 1..Len(conds) : Holds(conds[i], kwarg)

\* lines 621-626: append stays True unless some condition rejects
Kept(conds, kwarg) == \A i \in 1..Len(conds) : Holds(conds[i], kwarg)

\* the launch parameters of every kwarg combination are those of the first
\* launch combination only
FirstLaunchOnly(kwarg_lists, config_product) ==
  Product2(kwarg_lists, IF config_product = <<>> THEN <<>> ELSE <<Head(config_product)>>)

\* list(itertools.product(kwarg_lists, config_product)) (line 642)
AllProduct(kwarg_lists, config_product) == Product2(kwarg_lists, config_product)

\* the loop of lines 644-662: one Config per element of all_product, whose
\* launch part is <<<<<<num_warps, num_ctas>>, num_stages>>, ews>>
RECURSIVE ConfigsOf(_, _)
ConfigsOf(all_product, hook) ==
  IF all_product = <<>> THEN <<>>
  ELSE LET cc == Head(all_product)
       IN <<SpaceConfig(cc[1], cc[2][1][1][1], cc[2][1][1][2], cc[2][1][2], cc[2][2], hook)>>
          \o ConfigsOf(Tail(all_product), hook)

\* ConfigSpace.generate_config_list (lines 609-667); triton3:
\* triton_major_version >= 3, where Config takes no
\* enable_warp_specialization (FALSE here)
\* the conditions called for one combination are those up to the first one
\* that rejects it
RECURSIVE CalledUntilRejected(_, _, _)
CalledUntilRejected(conds, kwarg, j) ==
  IF j > Len(conds) THEN <<>>
  ELSE IF Holds(conds[j], kwarg) THEN <<j>> \o CalledUntilRejected(conds, kwarg, j + 1)
  ELSE <<j>>

\* the inner loop of lines 622-625 for one combination, from the j-th
\* condition on: `append = False` does not leave the loop
RECURSIVE Called(_, _, _)
Called(conds, kwarg, j) ==
  IF j > Len(conds) THEN <<>> ELSE <<j>> \o Called(conds, kwarg, j + 1)

\* <<i, j>>: the j-th condition was called with the i-th combination
RECURSIVE Tagged(_, _)
Tagged(i, js) == IF js = <<>> THEN <<>> ELSE <<<<i, Head(js)>>>> \o Tagged(i, Tail(js))

\* the calls of the outer loop of lines 620-627 from the i-th combination on
RECURSIVE ConditionCalls(_, _, _)
ConditionCalls(kwarg_lists_complete, conds, i) ==
  IF i > Len(kwarg_lists_complete) THEN <<>>
  ELSE Tagged(i, Called(conds, kwarg_lists_complete[i], 1))
       \o ConditionCalls(kwarg_lists_complete, conds, i + 1)

GenerateConfigList(cs, triton3) ==
  LET Test(kwarg) == Kept(cs.kwarg_conditions, kwarg)
      kwarg_lists == SelectSeq(KwargProduct(cs.kwargs), Test)
      config_product ==
        Product2(Product2(Product2(cs.num_warps, cs.num_ctas), cs.num_stages),
                 IF triton3 THEN <<FALSE>> ELSE cs.enable_warp_specialization)
  IN ConfigsOf(AllProduct(kwarg_lists, config_product), cs.pre_hook)

\* the constructor arguments explored
BlockLists == {<<>>, <<16>>, <<16, 32>>, <<16, 16>>}
NLists == {<<1>>, <<1, 2>>}
KwargsWithLists ==
  {<<>>} \cup {<<[name |-> "BLOCK", vals |-> b]>> : b \in BlockLists}
  \cup {<<[name |-> "BLOCK", vals |-> b], [name |-> "N", vals |-> n]>> :
          b \in BlockLists, n \in NLists}

Conditions ==
  {[accept |-> {}, default |-> FALSE], [accept |-> {16}, default |-> TRUE],
   [accept |-> {32}, default |-> TRUE], [accept |-> {16, 32}, default |-> TRUE]}
ConditionLists ==
  {<<>>} \cup {<<c>> : c \in Conditions} \cup {<<c, d>> : c \in Conditions, d \in Conditions}

SpaceArgs ==
  [kwargs_with_lists : KwargsWithLists,
   num_warps : {Absent, Given(<<4, 8>>), Given(<<>>)},
   num_stages : {Absent, Given(<<1, 2>>)},
   num_ctas : {Absent, Given(<<1, 2>>)},
   enable_warp_specialization : {Absent, Given(<<FALSE, TRUE>>)},
   pre_hook : BOOLEAN,
   kwarg_conditions : {Absent} \cup {Given(l) : l \in ConditionLists},
   capability : {8, 9},
   triton3 : BOOLEAN]

\* the arguments of the construction are drawn here
InitSpace ==
  /\ config_space = NoSpace /\ config_list = <<>> /\ condition_calls = <<>>
  /\ eng \in {Engine(MainArgNames, <<"n">>, <<>>, <<>>, <<>>, TRUE, NoPrune)}
  /\ cache = EmptyMap
  /\ _timings = EmptyMap
  /\ store = <<>>
  /\ restore_copies = <<>>
  /\ pc = "idle" /\ call \in SpaceArgs /\ key = <<>> /\ pruned = <<>> /\ idx = 0
  /\ timings = <<>> /\ rep = 0 /\ buf = EmptyMap
  /\ used_cached_result = TRUE /\ config = 0 /\ err = "" /\ measured = FALSE
  /\ callEv = <<>> /\ tail = <<>> /\ warmed = <<>>

SpaceFrame ==
  UNCHANGED <<eng, cache, _timings, store, call, key, pruned, idx, timings, rep, buf,
              restore_copies, used_cached_result, config, err, measured, callEv,
              tail, warmed>>

\* ConfigSpace.__init__ (lines 561-595)
ConfigSpaceInit ==
  /\ pc = "idle"
  /\ config_space' =
       [kwargs |-> call.kwargs_with_lists,
        num_warps |-> IF call.num_warps.none THEN <<4>> ELSE call.num_warps.list,
        num_stages |-> IF call.num_stages.none THEN <<2>> ELSE call.num_stages.list,
        num_ctas |-> IF call.num_ctas.none \/ call.capability < 9 THEN <<1>>
                     ELSE call.num_ctas.list,
        enable_warp_specialization |->
          IF call.enable_warp_specialization.none \/ call.triton3 THEN <<FALSE>>
          ELSE call.enable_warp_specialization.list,
        pre_hook |-> call.pre_hook,
        kwarg_conditions |-> IF call.kwarg_conditions.none THEN <<>>
                             ELSE call.kwarg_conditions.list]
  /\ pc' = "space"
  /\ UNCHANGED <<config_list, condition_calls>>
  /\ SpaceFrame

\* self.configs = self.config_space.generate_config_list() (line 83)
Generate ==
  /\ pc = "space"
  /\ config_list' = GenerateConfigList(config_space, call.triton3)
  /\ condition_calls' =
       ConditionCalls(KwargProduct(config_space.kwargs), config_space.kwarg_conditions, 1)
  /\ pc' = "generated"
  /\ UNCHANGED config_space
  /\ SpaceFrame

NextSpace ==
  \/ ConfigSpaceInit
  \/ Generate

SpecSpace == InitSpace /\ [][NextSpace]_vars

-----------------------------------------------------------------------------
\* Vocabulary of the properties.

Count(e, s) == Cardinality({i \in 1..Len(s) : s[i] = e})

\* the representative latency of a measurement
Latency(t) == IF eng.cuda THEN t ELSE t[1]

\* a call of run on an engine with several configurations is under way or over
InRun == pc \in {"bench", "reset", "push", "prod", "done", "raised"}

\* ... and found its key in the cache: the key is cached and was not stored
\* by this call
IsHit == InRun /\ Len(eng.configs) > 1 /\ key \in DOMAIN cache /\ Count("cache", tail) = 0

\* ... and missed, and its benchmarking pass is over (Select has run)
PassOver == InRun /\ ~used_cached_result /\ pc # "bench" /\ idx > Len(pruned)

\* the keys whose recorded winner timing is the failure sentinel
FailedKeys == {k \in DOMAIN _timings : IsSentinelTiming(_timings[k], eng.cuda)}

-----------------------------------------------------------------------------
\* C1: on an engine with several configurations, a dispatch whose key is
\* already cached never invokes the kernel for measurement and runs the
\* kernel at most once, exactly once when it returns, with the cached
\* configuration.
C1_HitNeverBenchmarks ==
  IsHit =>
    /\ pc \in {"prod", "done", "raised"}
    /\ ~measured /\ timings = <<>> /\ callEv = <<>>
    /\ config = cache[key]
    /\ Count("fn.run", tail) = (IF pc = "prod" THEN 0 ELSE 1)

\* a hit that returned, on a key this engine resolved itself, after another
\* key was resolved too
C1_Witness ==
  /\ IsHit /\ pc = "done"
  /\ key \in DOMAIN _timings
  /\ Cardinality(DOMAIN cache) = 2 /\ Len(store) = 2

\* C2: a key whose candidates all produced the failure sentinel raises the
\* total-failure error and has no entry in any snapshot pushed to the Store.
C2_AllFailedNeverStored ==
  /\ (PassOver /\ timings # <<>>
        /\ \A i \in 1..Len(timings) : IsSentinelTiming(timings[i].t, eng.cuda))
       => (pc = "raised" /\ err = "AllFailed")
  /\ \A i \in 1..Len(store) : DOMAIN store[i].cache \cap FailedKeys = {}

\* C3: every dispatch with a key whose candidates all failed raises the
\* total-failure error and does not run the kernel for production.
C3_AllFailedAlwaysSurfaces ==
  (InRun /\ key \in FailedKeys) =>
    (pc = "raised" /\ err = "AllFailed" /\ Count("fn.run", tail) = 0)

\* C4: on a cache miss the candidates are benchmarked once each, one at a
\* time and in the order prune produced them; when the pass has selected,
\* the cache entry of the key is a candidate of minimum measured latency,
\* and the production dispatch uses that same configuration.
C4_MissBenchmarksAllInOrder ==
  (InRun /\ ~used_cached_result) =>
    /\ [i \in 1..Len(timings) |-> timings[i].config] = SubSeq(pruned, 1, idx - 1)
    /\ idx <= Len(pruned) + 1
    /\ (PassOver /\ pc # "raised") =>
         /\ Len(timings) = Len(pruned)
         /\ \E w \in 1..Len(timings) :
              /\ cache[key] = timings[w].config
              /\ _timings[key] = timings[w].t
              /\ \A i \in 1..Len(timings) : Latency(timings[w].t) <= Latency(timings[i].t)
         /\ pc \in {"push", "prod", "done"} => config = cache[key]
         /\ pc = "done" => Count("fn.run", tail) = 1

\* a miss over three candidates that returned with the last measured one as
\* the winner
C4_Witness ==
  /\ PassOver /\ pc = "done" /\ Len(pruned) = 3
  /\ cache[key] = pruned[3] /\ config = pruned[3]
  /\ Latency(timings[3].t) < Latency(timings[1].t)
  /\ Latency(timings[3].t) < Latency(timings[2].t)

\* what the key is documented to be: the values of the arguments named in
\* the key specification, then the dtype of every supplied argument that has
\* one, in declaration order
NamedKey(e, c) ==
  [i \in 1..Len(e.keyspec) |-> KeyVal(c.val[e.keyspec[i]])]
  \o DtypeStrings(PresentArgs(e.arg_names, Supplied(c, e.arg_names), c.val))

\* C5: the derived key is the values of the key arguments followed by the
\* dtypes of the arguments, however the arguments are passed; so every call
\* with the same key-argument values and dtypes derives the same key.
C5_KeyIsNamedValuesAndDtypes ==
  (pc \in {"bench", "prod", "raised"} /\ Len(eng.configs) > 1) =>
    /\ err # "IndexError"
    /\ key = NamedKey(eng, call)

\* the content of the tensor arguments when run was called
InitialBuf == Buffers(call, eng.arg_names)

\* C6 as claimed: after a benchmarking pass over several candidates, every
\* argument registered for reset and/or restore holds, right before the
\* production dispatch, the value it held before the first trial.
C6_RegisteredArgsUnchanged ==
  (PassOver /\ pc = "prod" /\ Len(timings) >= 2) =>
    \A i \in (Range(eng.reset_idx) \cup Range(eng.restore_idx)) \cap DOMAIN buf :
      buf[i] = InitialBuf[i]

\* C6 amended: right before the production dispatch that follows a
\* benchmarking pass, an argument registered for restore only holds the
\* value it held before the first trial, and an argument registered for
\* reset holds zero.
C6_RestoredOrZeroed ==
  (PassOver /\ pc = "prod") =>
    /\ \A i \in (Range(eng.restore_idx) \ Range(eng.reset_idx)) \cap DOMAIN buf :
         buf[i] = InitialBuf[i]
    /\ \A i \in Range(eng.reset_idx) \cap DOMAIN buf : buf[i] = 0

\* a restore-only argument that was not zero, before the production
\* dispatch that follows a pass of three measured candidates
C6_Witness ==
  /\ PassOver /\ pc = "prod" /\ Len(timings) = 3
  /\ eng.restore_idx = <<1>> /\ eng.reset_idx = <<>>
  /\ InitialBuf[1] = 1 /\ measured
  /\ \A i \in 1..3 : ~IsSentinelTiming(timings[i].t, eng.cuda)

\* the candidates of the current call that name a parameter the call's
\* kwargs name too
Conflicting == {i \in 1..Len(pruned) : Conflicts(call, eng.configs[pruned[i]]) # {}}

\* C7: a call whose kwargs name a parameter of some candidate fails with the
\* conflict error before the kernel was invoked for measurement with any
\* candidate.
C7_ConflictBeforeAnyBenchmark ==
  (InRun /\ ~used_cached_result /\ Conflicting # {}) =>
    /\ ~measured /\ timings = <<>>
    /\ pc \in {"bench", "raised"}
    /\ pc = "raised" => err = "Conflict"

C9_OtherFailureAborts ==
  (pc = "raised" /\ err = "KernelError" /\ ~used_cached_result /\ idx <= Len(pruned)) =>
    /\ key \notin DOMAIN cache /\ key \notin DOMAIN _timings
    /\ tail = <<>>
    /\ config = 0
    /\ \A i \in 1..Len(store) : key \notin DOMAIN store[i].cache

\* the second candidate's trial raised after the first was measured, on an
\* engine that has resolved another key
C9_Witness ==
  /\ pc = "raised" /\ err = "KernelError" /\ ~used_cached_result
  /\ idx = 2 /\ Len(timings) = 1 /\ measured
  /\ Len(store) = 1

\* every snapshot pushed holds the entries of the snapshots before it
SnapshotsAgree ==
  \A i \in 1..Len(store) : \A j \in i..Len(store) : \A k \in DOMAIN store[i].cache :
    k \in DOMAIN store[j].cache /\ store[j].cache[k] = store[i].cache[k]

\* C10: no step changes or removes an entry of the cache, no benchmarking
\* pass runs for a cached key, and the snapshots pushed to the Store agree
\* on every key.
C10_ResolutionIsPermanent ==
  [][/\ \A k \in DOMAIN cache : k \in DOMAIN cache' /\ cache'[k] = cache[k]
     /\ pc' = "bench" => key' \notin DOMAIN cache'
     /\ SnapshotsAgree']_vars

\* a hit on one resolved key after the other key was resolved later
C10_Witness ==
  /\ IsHit /\ pc = "prod" /\ Len(store) = 2
  /\ key \in DOMAIN store[1].cache
  /\ store[2].cache[key] = config

\* the candidates an early rejection leaves, R of them
Remaining == {i \in 1..Len(eng.configs) : ~eng.early \/ eng.earlyKeep[i]}

\* K as documented: the count itself, or the floor of fraction * total
ClaimedK ==
  IF eng.top_k.frac
    THEN CHOOSE k \in 0..Len(eng.configs) :
           /\ k * eng.top_k.den <= eng.top_k.num * Len(eng.configs)
           /\ (k + 1) * eng.top_k.den > eng.top_k.num * Len(eng.configs)
    ELSE eng.top_k.num

\* C11: with a cost model registered, prune returns min(R, K) of the R
\* candidates left by early rejection, each once; when R > K they are K of
\* lowest predicted cost, and when R <= K they are all the remaining
\* candidates in their original order.
C11_TopKPrune ==
  (pc = "warmed" /\ eng.perf) =>
    LET R == Cardinality(Remaining)
        K == ClaimedK
    IN /\ Len(pruned) = (IF R < K THEN R ELSE K)
       /\ Range(pruned) \subseteq Remaining
       /\ Cardinality(Range(pruned)) = Len(pruned)
       /\ R > K => \A i \in Range(pruned) : \A j \in Remaining \ Range(pruned) :
                     eng.cost[i] <= eng.cost[j]
       /\ R <= K => /\ Range(pruned) = Remaining
                    /\ \A i \in 1..Len(pruned) : \A j \in (i+1)..Len(pruned) :
                         pruned[i] < pruned[j]

\* top_k = 0.5 over four candidates, none rejected early: the third and
\* the first, the two cheapest, are returned
C11_Witness ==
  /\ pc = "warmed" /\ eng.perf /\ Len(eng.configs) = 4
  /\ eng.top_k = [frac |-> TRUE, num |-> 1, den |-> 2]
  /\ Cardinality(Remaining) = 4
  /\ eng.cost = <<2, 3, 1, 3>>
  /\ pruned = <<3, 1>> /\ warmed = <<3, 1>>

\* C12: no two callers run a benchmarking pass for the same key at the same
\* time, and no benchmarking pass runs for a key the engine has resolved.
C12_AtMostOnePassPerKey ==
  /\ \A t \in Threads : \A u \in Threads \ {t} :
       (pc[t] = "bench" /\ pc[u] = "bench") => key[t] # key[u]
  /\ \A t \in Threads : pc[t] = "bench" => key[t] \notin DOMAIN cache

\* the length of an optional list argument as supplied; an argument left out
\* stands for its single default value
SuppliedLen(opt) == IF opt.none THEN 1 ELSE Len(opt.list)

\* the conditions the ConfigSpace was constructed with
SuppliedConditions ==
  IF call.kwarg_conditions.none THEN <<>> ELSE call.kwarg_conditions.list

AllAccept(kwarg) ==
  \A i \in 1..Len(SuppliedConditions) : Holds(SuppliedConditions[i], kwarg)

\* the number of kwarg combinations (one list position per name) that every
\* condition accepts
PassingCombos ==
  LET kv == call.kwargs_with_lists
  IN CASE Len(kv) = 0 -> IF AllAccept(EmptyMap) THEN 1 ELSE 0
       [] Len(kv) = 1 ->
            Cardinality({i \in 1..Len(kv[1].vals) :
                           AllAccept([k \in {kv[1].name} |-> kv[1].vals[i]])})
       [] Len(kv) = 2 ->
            Cardinality({ij \in (1..Len(kv[1].vals)) \X (1..Len(kv[2].vals)) :
                           AllAccept([k \in {kv[1].name, kv[2].name} |->
                                        IF k = kv[1].name THEN kv[1].vals[ij[1]]
                                        ELSE kv[2].vals[ij[2]]])})

\* the cardinality of the cross product of the kwarg lists
KwargCardinality ==
  LET kv == call.kwargs_with_lists
  IN CASE Len(kv) = 0 -> 1
       [] Len(kv) = 1 -> Len(kv[1].vals)
       [] Len(kv) = 2 -> Len(kv[1].vals) * Len(kv[2].vals)

NoRepeats(l) == \A i \in 1..Len(l) : \A j \in 1..Len(l) : i # j => l[i] # l[j]

\* no list the ConfigSpace was constructed with names a value twice
InputsWithoutRepeats ==
  /\ \A i \in 1..Len(call.kwargs_with_lists) : NoRepeats(call.kwargs_with_lists[i].vals)
  /\ NoRepeats(call.num_warps.list) /\ NoRepeats(call.num_ctas.list)
  /\ NoRepeats(call.num_stages.list) /\ NoRepeats(call.enable_warp_specialization.list)

\* C13 as claimed: the generated list has as many configurations as kwarg
\* combinations pass the conditions, times the lengths of the supplied
\* num_warps, num_ctas and num_stages lists; without conditions that is the
\* full cross product; the configurations are pairwise distinct when no
\* input list repeats a value.
C13_CountIsProductOfSupplied ==
  pc = "generated" =>
    /\ Len(config_list) = PassingCombos * SuppliedLen(call.num_warps)
                            * SuppliedLen(call.num_ctas) * SuppliedLen(call.num_stages)
    /\ SuppliedConditions = <<>> =>
         Len(config_list) = KwargCardinality * SuppliedLen(call.num_warps)
                             * SuppliedLen(call.num_ctas) * SuppliedLen(call.num_stages)
    /\ InputsWithoutRepeats => NoRepeats(config_list)

\* the factor a launch-parameter list contributes: num_ctas counts only on a
\* device of capability >= 9, enable_warp_specialization only with triton < 3
NumCtasFactor == IF call.capability >= 9 THEN SuppliedLen(call.num_ctas) ELSE 1
WarpSpecFactor == IF call.triton3 THEN 1 ELSE SuppliedLen(call.enable_warp_specialization)

\* C13 amended: the generated list has as many configurations as kwarg
\* combinations pass the conditions, times the lengths of the supplied
\* num_warps and num_stages lists, times the length of the supplied num_ctas
\* list on a device of capability >= 9 only, times the length of the
\* supplied enable_warp_specialization list with triton < 3 only; without
\* conditions the first factor is the cross-product cardinality of the kwarg
\* lists; the configurations are pairwise distinct when no input list
\* repeats a value.
C13_CountIsProductOfUsed ==
  pc = "generated" =>
    /\ Len(config_list) = PassingCombos * SuppliedLen(call.num_warps)
                            * SuppliedLen(call.num_stages) * NumCtasFactor * WarpSpecFactor
    /\ SuppliedConditions = <<>> =>
         Len(config_list) = KwargCardinality * SuppliedLen(call.num_warps)
                             * SuppliedLen(call.num_stages) * NumCtasFactor * WarpSpecFactor
    /\ InputsWithoutRepeats => NoRepeats(config_list)

\* BLOCK in [16, 32] and num_warps in [4, 8] with num_ctas = [1, 2] on a
\* device of capability 8: four configurations, all with num_ctas = 1
C13_Witness ==
  /\ pc = "generated"
  /\ call.kwargs_with_lists = <<[name |-> "BLOCK", vals |-> <<16, 32>>]>>
  /\ call.num_warps = Given(<<4, 8>>) /\ call.num_stages = Absent
  /\ call.num_ctas = Given(<<1, 2>>) /\ call.capability = 8
  /\ call.triton3 /\ SuppliedConditions = <<>>
  /\ Len(config_list) = 4 /\ NoRepeats(config_list)
  /\ \A i \in 1..4 : config_list[i].num_ctas = 1

\* the kwarg combinations of the cross product of the supplied kwarg lists
Combos ==
  LET kv == call.kwargs_with_lists
  IN CASE Len(kv) = 0 -> {EmptyMap}
       [] Len(kv) = 1 -> {[k \in {kv[1].name} |-> v] : v \in Range(kv[1].vals)}
       [] Len(kv) = 2 ->
            {[k \in {kv[1].name, kv[2].name} |-> IF k = kv[1].name THEN vw[1] ELSE vw[2]] :
               vw \in Range(kv[1].vals) \X Range(kv[2].vals)}

\* the kwarg combinations of the generated configurations
GeneratedKwargs == {config_list[i].kwargs : i \in 1..Len(config_list)}

AlwaysFalse(cond) == cond.accept = {} /\ ~cond.default
AlwaysTrue(cond) == \A d \in Combos : Holds(cond, d)

\* the number of launch combinations the ConfigSpace object holds
LaunchCombos ==
  Len(config_space.num_warps) * Len(config_space.num_ctas) * Len(config_space.num_stages)
  * (IF call.triton3 THEN 1 ELSE Len(config_space.enable_warp_specialization))

C15_SingleConfigFastPath ==
  /\ [](( InRun /\ Len(eng.configs) = 1) =>
          /\ pc \in {"prod", "done", "raised"}
          /\ key = <<>> /\ pruned = <<>> /\ timings = <<>>
          /\ ~measured /\ callEv = <<>>
          /\ config = 1
          /\ Range(tail) \subseteq {"config.pre_hook", "fn.run"}
          /\ Count("fn.run", tail) = (IF pc = "prod" THEN 0 ELSE 1)
          /\ pc = "raised" => err = "KernelError")
  /\ [][Len(eng.configs) = 1 =>
          (cache' = cache /\ _timings' = _timings /\ store' = store /\ store = <<>>)]_vars

\* a dispatch on a single-configuration engine that returned, with a call
\* whose key a restored cache holds
C15_Witness ==
  /\ Len(eng.configs) = 1 /\ pc = "done"
  /\ CacheKeyOf(eng.arg_names, eng.keyspec, call).key \in DOMAIN cache
  /\ config = 1 /\ Count("fn.run", tail) = 1
  /\ store = <<>>

\* C16: a warmup that returns has invoked self.fn.warmup once for every
\* candidate prune returned, in order, and one that raises for a prefix of
\* them; warmup never runs the kernel, and its step leaves the cache, the
\* timing table, the Store and the tensor arguments as they were.
C16_WarmupOnlyPrepares ==
  /\ [](pc \in {"warmed", "warmup_raised"} =>
          /\ pruned = PruneConfigs(eng)
          /\ pc = "warmed" => warmed = pruned
          /\ Len(warmed) <= Len(pruned) /\ warmed = SubSeq(pruned, 1, Len(warmed))
          /\ ~measured /\ callEv = <<>> /\ tail = <<>> /\ timings = <<>>)
  /\ [][pc' \in {"warmed", "warmup_raised"} =>
          (cache' = cache /\ _timings' = _timings /\ store' = store /\ buf' = buf)]_vars

\* a warmup that returned with two candidates prepared, on an engine that
\* resolved a key before
C16_Witness ==
  /\ pc = "warmed" /\ warmed = <<2, 3>> /\ pruned = <<2, 3>>
  /\ Len(store) = 1 /\ DOMAIN cache # {}

\* the order claimed for one trial of a configuration with (h) or without a
\* pre-hook of its own
TrialOrder(h) ==
  (IF h THEN <<"config.pre_hook">> ELSE <<>>) \o <<"pre_hook", "fn.run", "post_hook">>

\* the candidate of the last kernel_call of the current pass
LastTried == IF Benching /\ rep >= 1 THEN CurConfig
             ELSE IF pc = "raised" /\ err = "KernelError" /\ idx <= Len(pruned)
               THEN CurConfig
             ELSE eng.configs[pruned[idx - 1]]

\* C17: what a kernel_call of a trial invoked is, in this order, the
\* configuration's own pre-hook if it has one, the engine's pre-hook, the
\* kernel run and, when the run returned, the engine's post-hook; so every
\* kernel run of a trial comes right after an engine pre-hook.
C17_TrialCallOrder ==
  /\ measured <=> callEv # <<>>
  /\ callEv # <<>> =>
       LET order == TrialOrder(LastTried.pre_hook)
       IN /\ callEv \in {order, SubSeq(order, 1, Len(order) - 1)}
          /\ (Benching /\ rep >= 1) => callEv = order
          /\ \A i \in 1..Len(callEv) :
               callEv[i] = "fn.run" => (i > 1 /\ callEv[i - 1] = "pre_hook")

\* the second kernel_call of the trial of a configuration with a pre-hook
\* of its own has returned
C17_Witness ==
  /\ Benching /\ rep = 2 /\ CurConfig.pre_hook
  /\ callEv = <<"config.pre_hook", "pre_hook", "fn.run", "post_hook">>

\* a miss whose pass selected a winner with a finite timing
SuccessfulMiss == PassOver /\ ~(pc = "raised" /\ err \in {"AllFailed", "MinOfEmpty"})

\* what the production dispatch with the cached winner invokes
WinnerEvents ==
  (IF eng.configs[cache[key]].pre_hook THEN <<"config.pre_hook">> ELSE <<>>) \o <<"fn.run">>

\* how far a successful miss has got through the steps after the selection
StepsDone ==
  CASE pc = "reset" -> 1
    [] pc = "push" -> 2
    [] pc = "prod" -> 3
    [] OTHER -> 3 + Len(WinnerEvents)

\* C18 as claimed: after the selection of a successful miss the steps are
\* the store in the cache, the push to the Store, one call of the engine
\* pre-hook in reset-only mode, and the production dispatch with the winner.
C18_PushThenReset ==
  SuccessfulMiss =>
    tail = SubSeq(<<"cache", "add_autotuner_cache", "pre_hook">> \o WinnerEvents, 1, StepsDone)

\* C18 amended: after the selection of a successful miss the steps are the
\* store in the cache, one call of the engine pre-hook in reset-only mode,
\* the push to the Store, and the production dispatch with the winner.
C18_ResetThenPush ==
  SuccessfulMiss =>
    /\ tail = SubSeq(<<"cache", "pre_hook", "add_autotuner_cache">> \o WinnerEvents, 1, StepsDone)
    /\ pc \in {"push", "prod", "done", "raised"} =>
         /\ config = cache[key]
         /\ \A i \in Range(eng.reset_idx) \cap DOMAIN buf :
              pc \in {"push", "prod"} => buf[i] = 0
    /\ pc \in {"prod", "done", "raised"} =>
         /\ store # <<>> /\ store[Len(store)].cache = cache

\* a successful miss that returned, its winner having a pre-hook of its own,
\* on an engine with a reset argument
C18_Witness ==
  /\ SuccessfulMiss /\ pc = "done" /\ eng.reset_idx = <<1>>
  /\ tail = <<"cache", "pre_hook", "add_autotuner_cache", "config.pre_hook", "fn.run">>

\* a pass that measured at least one candidate and selected
Selected == PassOver /\ timings # <<>>

\* the position in timings of the cached winner (configurations of a pass
\* are distinct)
WinnerPos == CHOOSE w \in 1..Len(timings) : timings[w].config = cache[key]

\* C19 as claimed: the winner is the first measured candidate among those
\* of minimum representative latency (the measurement in graph-capture mode,
\* the first element of the quantile tuple in direct-timing mode).
C19_FirstSeenMinimumWins ==
  Selected =>
    /\ \A i \in 1..Len(timings) : Latency(timings[WinnerPos].t) <= Latency(timings[i].t)
    /\ \A i \in 1..(WinnerPos - 1) : Latency(timings[WinnerPos].t) < Latency(timings[i].t)

\* a measurement ordered before another: by the value in graph-capture
\* mode, element by element from the first in direct-timing mode
OrderedBefore(a, b) ==
  IF eng.cuda THEN a < b
  ELSE \E k \in 1..3 : a[k] < b[k] /\ \A j \in 1..(k - 1) : a[j] = b[j]

\* C19 amended: the winner has minimum representative latency; among the
\* candidates of that latency the winner is the one whose quantile tuple
\* comes first element by element (second element, then third), and
\* measurement order decides only between candidates with equal
\* measurements, where the one measured first wins.
C19_LexicographicMinimumWins ==
  Selected =>
    /\ \A i \in 1..Len(timings) : Latency(timings[WinnerPos].t) <= Latency(timings[i].t)
    /\ \A i \in 1..Len(timings) : ~OrderedBefore(timings[i].t, timings[WinnerPos].t)
    /\ \A i \in 1..(WinnerPos - 1) : OrderedBefore(timings[WinnerPos].t, timings[i].t)

\* direct-timing mode: the second candidate wins a tie in the first tuple
\* element by its second element
C19_Witness ==
  /\ Selected /\ pc = "done" /\ ~eng.cuda /\ Len(timings) = 2
  /\ timings[1].t[1] = timings[2].t[1] /\ timings[2].t[2] < timings[1].t[2]
  /\ cache[key] = timings[2].config /\ config = timings[2].config

\* what a dispatch has pushed: nothing before the push of a successful
\* miss, then one snapshot holding the key with its winner, pushed before
\* the kernel run; nothing at all on a hit or with a single configuration
PushedSoFar ==
  /\ (SuccessfulMiss /\ pc \in {"reset", "push"}) =>
       (Count("add_autotuner_cache", tail) = 0 /\ Count("fn.run", tail) = 0)
  /\ (SuccessfulMiss /\ pc \notin {"reset", "push"}) =>
       /\ Count("add_autotuner_cache", tail) = 1
       /\ \A i \in 1..Len(tail) :
            (tail[i] = "fn.run") => (\E j \in 1..(i - 1) : tail[j] = "add_autotuner_cache")
       /\ store # <<>>
       /\ key \in DOMAIN store[Len(store)].cache
       /\ store[Len(store)].cache[key] = cache[key]
       /\ config = cache[key]
  /\ (InRun /\ (IsHit \/ Len(eng.configs) = 1)) =>
       Count("add_autotuner_cache", tail) = 0

\* C20: a dispatch that resolved its key has, from the production dispatch
\* on, pushed to the Store exactly once, before the production kernel run, a
\* snapshot that holds the key with its winner; a dispatch that hit the
\* cache or has a single configuration pushes nothing; and the Store grows
\* by nothing but these pushes.
C20_PersistedOnceBeforeProduction ==
  /\ []PushedSoFar
  /\ [][store' # store =>
          /\ pc = "push" /\ ~used_cached_result /\ Len(eng.configs) > 1
          /\ store' = Append(store, [cache |-> cache, timings |-> _timings])
          /\ key \in DOMAIN cache]_vars

\* the dispatch that resolved a second key is about to run the kernel: the
\* snapshot it pushed holds both keys
C20_Witness ==
  /\ SuccessfulMiss /\ pc = "prod" /\ Len(store) = 2
  /\ Cardinality(DOMAIN store[2].cache) = 2
  /\ store[2].cache[key] = config
  /\ Count("fn.run", tail) = 0

\* the conditions that rejected the i-th kwarg combination
Rejecting(i) ==
  {j \in 1..Len(config_space.kwarg_conditions) :
     ~Holds(config_space.kwarg_conditions[j], KwargProduct(config_space.kwargs)[i])}

\* C21 as stated: once a condition rejects a kwarg combination, the
\* conditions that follow it in the list are not called with that
\* combination (a short-circuit AND).
C21_ShortCircuitAnd ==
  pc = "generated" =>
    \A n \in 1..Len(condition_calls) :
      \A j \in Rejecting(condition_calls[n][1]) : condition_calls[n][2] <= j

\* C21 amended: every condition is called with every kwarg combination, the
\* combinations in the order of the cross product and the conditions in list
\* order, whether or not an earlier condition rejected the combination.
C21_EveryConditionCalled ==
  pc = "generated" =>
    LET m == Len(config_space.kwarg_conditions)
        n == Len(KwargProduct(config_space.kwargs))
    IN /\ Len(condition_calls) = n * m
       /\ \A i \in 1..n : \A j \in 1..m : condition_calls[(i - 1) * m + j] = <<i, j>>

\* a combination rejected by the first of two conditions was still handed to
\* the second, and another combination was kept
C21_Witness ==
  /\ pc = "generated"
  /\ Len(config_space.kwarg_conditions) = 2
  /\ config_list # <<>>
  /\ \E n \in 1..Len(condition_calls) :
       condition_calls[n][2] = 2 /\ 1 \in Rejecting(condition_calls[n][1])

\* a trial is over and run goes on: the next candidate's trial or the steps
\* after the pass follow
TrialBoundary ==
  pc \in {"bench", "reset", "push", "prod", "done"} /\ rep = 0 /\ measured

\* C22: during a benchmarking pass every invocation of the engine pre-hook
\* in full (snapshot) mode is matched by one of the engine post-hook before
\* the next candidate's trial begins and before the production dispatch, also
\* for a trial whose kernel invocation fails and becomes the failure
\* sentinel; no snapshot taken by the pre-hook is left unrestored.
C22_PreHookMatchedByPostHook ==
  TrialBoundary =>
    /\ Count("pre_hook", callEv) = Count("post_hook", callEv)
    /\ restore_copies = <<>>

\* a cache miss whose prune_configs returned no candidate
NoCandidates == ~used_cached_result /\ pruned = <<>>

EmptyPruneLeavesNoTrace ==
  NoCandidates =>
    /\ pc \in {"bench", "raised"}
    /\ pc = "raised" => err = "MinOfEmpty"
    /\ key \notin DOMAIN cache
    /\ key \notin DOMAIN _timings
    /\ timings = <<>> /\ tail = <<>> /\ ~measured /\ config = 0

\* C23: when prune_configs returns no candidate on a cache miss, run fails
\* without a cache entry for the key, without a push to the Store and without
\* a production run, and the key stays unresolved for later dispatches.
C23_EmptyPruneFailsWithoutTrace ==
  /\ []EmptyPruneLeavesNoTrace
  /\ [][NoCandidates =>
          /\ cache' = cache /\ _timings' = _timings /\ store' = store
          /\ pc = "bench" => pc' = "raised"]_vars

\* run failed on a top_k fraction that keeps no configuration
C23_Witness ==
  /\ pc = "raised" /\ err = "MinOfEmpty"
  /\ NoCandidates
  /\ eng.perf /\ eng.top_k.frac

\* run took the cache hit or the single-configuration path (or failed
\* before the lookup)
WithoutBenchmark == pc \in {"prod", "done", "raised"} /\ used_cached_result

NoEngineHooks ==
  WithoutBenchmark =>
    /\ ~measured /\ callEv = <<>>
    /\ Count("pre_hook", tail) = 0
    /\ pc = "prod" => tail = <<>> /\ buf = Buffers(call, eng.arg_names)
    /\ pc = "done" =>
         tail = (IF eng.configs[config].pre_hook THEN <<"config.pre_hook">> ELSE <<>>)
                \o <<"fn.run">>

\* C24: a dispatch that hits the cache or takes the single-configuration
\* path invokes neither the engine's pre-hook nor its post-hook, only the
\* chosen configuration's own pre-hook, once, before the kernel run; the
\* arguments registered for reset or restore reach the kernel as the caller
\* passed them and the stored snapshot is not touched.
C24_HooksOnlyWhenBenchmarking ==
  /\ []NoEngineHooks
  /\ [][used_cached_result' => restore_copies' = restore_copies]_vars

\* a cache hit of an engine with reset_to_zero and restore_value, called
\* with a tensor that is not zero, after its kernel run
C24_Witness ==
  /\ pc = "done" /\ used_cached_result
  /\ Len(eng.configs) > 1
  /\ eng.reset_idx # <<>> /\ eng.restore_idx # <<>>
  /\ call.val.x.v # 0
  /\ tail = <<"config.pre_hook", "fn.run">>

====
